---- MODULE Spec2Model ----
(***************************************************************************)
(* Model of scripts/fetch_conference_data.py: the date extraction          *)
(* heuristic (extract_dates_from_text), the page scraper (scrape_cfp_page),*)
(* the flexible date parser (parse_date_flexible, is_past_deadline) and    *)
(* the orchestration loop (main).                                          *)
(*                                                                         *)
(* Three specifications share the pure operators:                          *)
(*   SpecPast     is_past_deadline applied to one string at one instant    *)
(*   SpecExtract  scrape_cfp_page on one page, the line loop of            *)
(*                extract_dates_from_text taken one line per step          *)
(*   Spec         main: input loading, the year loop, the URL loop, the    *)
(*                output records and the two output files                  *)
(***************************************************************************)
EXTENDS Integers, Sequences, FiniteSets, TLC

VARIABLES
    \* ---- SpecPast
    p_in,        \* the string handed to is_past_deadline
    p_now,       \* what datetime.now() returns in that call
    p_out,       \* "pending", or the boolean returned
    \* ---- SpecExtract
    x_page,      \* the page behind the url (fetch outcome, lines, location matches)
    x_now,       \* what datetime.now() returns at line 349
    x_pc,        \* "scan" | "select" | "scrape" | "done"
    x_i,         \* index of the line the loop of line 319 is at (1-based)
    all_deadlines,
    all_abstract_deadlines,
    dates,       \* the dates dict of extract_dates_from_text
    x_result,    \* the dict scrape_cfp_page returns
    \* ---- Spec (main)
    input,       \* "missing" | "invalid" | "valid": state of data/conferences.json
    conferences, \* the loaded list
    pc,          \* position of main
    idx,         \* enumerate index of the conference being processed (1-based)
    attempt,     \* 0 or 1
    n_urls,      \* len(urls) for the year being searched
    url_idx,     \* number of urls of this year tried so far
    found,
    cfp_info,
    best_url,
    verdict,     \* which branch of lines 551-566 the last scrape took
    cfp_out,
    dates_out,
    files,       \* generated/cfp.json and generated/confdates.json
    net,         \* TRUE once any HTTP request was issued
    now          \* the wall clock, as last read

pastVars == <<p_in, p_now, p_out>>
extractVars == <<x_page, x_now, x_pc, x_i, all_deadlines, all_abstract_deadlines,
                 dates, x_result>>
mainVars == <<input, conferences, pc, idx, attempt, n_urls, url_idx, found,
              cfp_info, best_url, verdict, cfp_out, dates_out, files, net, now>>
vars == <<pastVars, extractVars, mainVars>>

(***************************************************************************)
(* Strings.  A string is a record: k names its shape, y/m/d the numbers    *)
(* in it.  Shapes:                                                         *)
(*   "dmy"    "15 march 2026"   (groups of date pattern 1, space-joined)   *)
(*   "mdy"    "march 15 2026"   (groups of date pattern 2, space-joined)   *)
(*   "ymd"    "2026 03 15"      (groups of date pattern 3, space-joined:   *)
(*                               the - or / separators are not captured)   *)
(*   "iso"    "2026-03-15"                                                 *)
(*   "slash"  "A/B/2026"        (d holds A, the first number; m holds B)   *)
(*   "wdmy"   "sunday, 15 march 2026"                                      *)
(*   "emb"    "due 15 march 2026 aoe"  (a dmy date inside other words)     *)
(*   "TBA", "", "not a date", and "None" for Python's None                 *)
(***************************************************************************)
Str(k, y, m, d) == [k |-> k, y |-> y, m |-> m, d |-> d]
TBA == Str("TBA", 0, 0, 0)
None == Str("None", 0, 0, 0)
EmptyStr == Str("", 0, 0, 0)
NotADate == Str("not a date", 0, 0, 0)

\* datetime values are instants counted in half days; a parsed date is the
\* midnight that starts it (even), NoDate stands for parse failure (None).
NoDate == -1
IsLeap(y) == (y % 4 = 0 /\ y % 100 # 0) \/ y % 400 = 0
DaysIn(y, m) ==
    IF m = 2 THEN (IF IsLeap(y) THEN 29 ELSE 28)
    ELSE IF m \in {4, 6, 9, 11} THEN 30 ELSE 31
Midnight(y, m, d) == 2 * ((y * 12 + (m - 1)) * 31 + d)
Noon(y, m, d) == Midnight(y, m, d) + 1
\* datetime(y, m, d) as strptime builds it: ValueError unless the date exists
MakeDate(y, m, d) ==
    IF y >= 1 /\ m \in 1..12 /\ d >= 1 /\ d <= DaysIn(y, m)
    THEN Midnight(y, m, d) ELSE NoDate

\* the formats list of parse_date_flexible, in its order
Formats == <<"%d %B %Y", "%d %b %Y", "%B %d %Y", "%b %d %Y", "%d-%B-%Y",
             "%d-%b-%Y", "%Y-%m-%d", "%d/%m/%Y", "%m/%d/%Y", "%A, %d %B %Y",
             "%A, %B %d %Y">>

\* datetime.strptime(s, fmt); NoDate for ValueError
Strptime(s, fmt) ==
    CASE fmt \in {"%d %B %Y", "%d %b %Y"} /\ s.k = "dmy" -> MakeDate(s.y, s.m, s.d)
      [] fmt \in {"%B %d %Y", "%b %d %Y"} /\ s.k = "mdy" -> MakeDate(s.y, s.m, s.d)
      [] fmt = "%Y-%m-%d" /\ s.k = "iso" -> MakeDate(s.y, s.m, s.d)
      [] fmt = "%d/%m/%Y" /\ s.k = "slash" -> MakeDate(s.y, s.m, s.d)
      [] fmt = "%m/%d/%Y" /\ s.k = "slash" -> MakeDate(s.y, s.d, s.m)
      [] fmt = "%A, %d %B %Y" /\ s.k = "wdmy" -> MakeDate(s.y, s.m, s.d)
      [] OTHER -> NoDate

RECURSIVE TryFormats(_, _)
TryFormats(s, f) ==
    IF f > Len(Formats) THEN NoDate
    ELSE IF Strptime(s, Formats[f]) # NoDate THEN Strptime(s, Formats[f])
    ELSE TryFormats(s, f + 1)

\* what the two "date part" regexes of line 475 find in s, in their order
DateParts(s) ==
    CASE s.k \in {"dmy", "wdmy", "emb"} -> <<Str("dmy", s.y, s.m, s.d)>>
      [] s.k = "mdy" -> <<Str("mdy", s.y, s.m, s.d)>>
      [] OTHER -> <<>>

RECURSIVE TryParts(_, _)
TryParts(parts, j) ==
    IF j > Len(parts) THEN NoDate
    ELSE IF TryFormats(parts[j], 1) # NoDate THEN TryFormats(parts[j], 1)
    ELSE TryParts(parts, j + 1)

parse_date_flexible(date_str) ==
    IF date_str \in {None, EmptyStr, TBA} THEN NoDate
    ELSE IF TryFormats(date_str, 1) # NoDate THEN TryFormats(date_str, 1)
    ELSE TryParts(DateParts(date_str), 1)

\* variant: no None test, and <= for <
is_past_deadline_lenient(cfp_deadline, t) ==
    parse_date_flexible(cfp_deadline) <= t

is_past_deadline(cfp_deadline, t) ==
    LET deadline_date == parse_date_flexible(cfp_deadline)
    IN  IF deadline_date = NoDate THEN FALSE ELSE deadline_date < t

\* instants datetime.now() may return
NowValues == {Noon(2025, 6, 1), Midnight(2025, 9, 20), Noon(2026, 6, 1)}


(***************************************************************************)
(* extract_dates_from_text.  A page's text is a sequence of lines; of a    *)
(* line the model keeps which keyword lists it hits (cues) and the         *)
(* date-shaped substrings in it, left to right (toks).  A substring of     *)
(* shape "dmy" is what date pattern 1 matches, "mdy" pattern 2, "ymd"      *)
(* pattern 3; substrings do not overlap and none spans two lines.          *)
(***************************************************************************)
Line(cues, toks) == [cues |-> cues, toks |-> toks]
PatternOf(tok) == CASE tok.k = "dmy" -> 1 [] tok.k = "mdy" -> 2 [] OTHER -> 3

\* re.findall(patterns[p], ...) followed by the ' '.join of each match
FindAll(p, toks) == SelectSeq(toks, LAMBDA tok : PatternOf(tok) = p)

\* lines 322-326 / 330-334: for pattern in patterns: for match in matches
LineMatches(toks) == FindAll(1, toks) \o FindAll(2, toks) \o FindAll(3, toks)

\* the length of the forward window of line 338
Window == 4

RECURSIVE Context(_, _, _)
Context(lines, i, last) ==
    IF i > last THEN <<>> ELSE lines[i].toks \o Context(lines, i + 1, last)

\* lines 339-346: first pattern with a match decides start and end
RECURSIVE ConfLoop(_, _, _)
ConfLoop(ctx, p, d) ==
    IF p > 3 THEN d
    ELSE LET matches == FindAll(p, ctx)
             d1 == IF Len(matches) >= 1
                   THEN [d EXCEPT !.conference_start = matches[1]] ELSE d
             d2 == IF Len(matches) >= 2
                   THEN [d1 EXCEPT !.conference_end = matches[2]] ELSE d1
         IN  IF d2.conference_start # None THEN d2 ELSE ConfLoop(ctx, p + 1, d2)

\* variant: without the "not dates['conference_start']" guard of line 337
ScanConfOverwrite(lines, i, d) ==
    IF "conf" \in lines[i].cues
    THEN ConfLoop(Context(lines, i, IF i + Window - 1 < Len(lines)
                                    THEN i + Window - 1 ELSE Len(lines)), 1, d)
    ELSE d

\* lines 337-346
ScanConf(lines, i, d) ==
    IF "conf" \in lines[i].cues /\ d.conference_start = None
    THEN ConfLoop(Context(lines, i, IF i + Window - 1 < Len(lines)
                                    THEN i + Window - 1 ELSE Len(lines)), 1, d)
    ELSE d

\* lines 321-326 and 329-334: the pool a cue feeds, after line i
ScanPool(lines, i, cue, pool) ==
    IF cue \in lines[i].cues THEN pool \o LineMatches(lines[i].toks) ELSE pool

\* future_deadlines.sort(key=lambda x: x[0]): a stable sort by parsed date
RECURSIVE Insert(_, _)
Insert(sorted, s) ==
    IF sorted = <<>> THEN <<s>>
    ELSE IF parse_date_flexible(s) < parse_date_flexible(Head(sorted))
         THEN <<s>> \o sorted
         ELSE <<Head(sorted)>> \o Insert(Tail(sorted), s)

RECURSIVE SortByDate(_)
SortByDate(pool) ==
    IF pool = <<>> THEN <<>>
    ELSE Insert(SortByDate(SubSeq(pool, 1, Len(pool) - 1)), pool[Len(pool)])

\* lines 353-356: the candidates that parse to a date >= now
Future(pool, t) ==
    SelectSeq(pool, LAMBDA s : parse_date_flexible(s) # NoDate
                               /\ parse_date_flexible(s) >= t)

\* variant: the earliest parseable candidate, whatever now is
SelectDeadlineAnyDate(pool, t) ==
    LET parsed == SelectSeq(pool, LAMBDA s : parse_date_flexible(s) # NoDate)
    IN  IF parsed # <<>> THEN SortByDate(parsed)[1]
        ELSE IF pool # <<>> THEN pool[Len(pool)]
        ELSE None

\* variant: the fallback takes the first raw candidate
SelectDeadlineFirstRaw(pool, t) ==
    IF Future(pool, t) # <<>> THEN SortByDate(Future(pool, t))[1]
    ELSE IF pool # <<>> THEN pool[1]
    ELSE None

\* lines 364-369 (and 371-375 for the abstract pool)
SelectDeadline(pool, t) ==
    IF Future(pool, t) # <<>> THEN SortByDate(Future(pool, t))[1]
    ELSE IF pool # <<>> THEN pool[Len(pool)]
    ELSE None

NoDates == [cfp_deadline |-> None, abstract_deadline |-> None,
            conference_start |-> None, conference_end |-> None]

\* the whole function, as main's scrapes use it
RECURSIVE PoolUpTo(_, _, _)
PoolUpTo(lines, i, cue) ==
    IF i = 0 THEN <<>> ELSE ScanPool(lines, i, cue, PoolUpTo(lines, i - 1, cue))

RECURSIVE ConfUpTo(_, _)
ConfUpTo(lines, i) ==
    IF i = 0 THEN NoDates ELSE ScanConf(lines, i, ConfUpTo(lines, i - 1))

extract_dates_from_text(lines, t) ==
    [ConfUpTo(lines, Len(lines)) EXCEPT
        !.cfp_deadline = SelectDeadline(PoolUpTo(lines, Len(lines), "submission"), t),
        !.abstract_deadline = SelectDeadline(PoolUpTo(lines, Len(lines), "abstract"), t)]

(***************************************************************************)
(* scrape_cfp_page.  A page is the fetch outcome (ok), the lines of its    *)
(* text, whether a cycle keyword occurs in it, and per location pattern    *)
(* the lengths of its matches in text[:5000] after strip and whitespace    *)
(* collapse, in order.  A location is [pat, len]: which pattern matched    *)
(* and how long the phrase is.                                             *)
(***************************************************************************)
Page(ok, lines, cycles, loc) == [ok |-> ok, lines |-> lines, cycles |-> cycles, loc |-> loc]
Loc(pat, len) == [pat |-> pat, len |-> len]
LocTBA == Loc(0, 0)
\* the length above which a location match is passed over (line 432)
LocMax == 50

\* lines 403-404, on the dates dict
\* variant: the abstract deadline replaces a selected CFP deadline too
SubstituteAlways(d) ==
    IF d.abstract_deadline # None
    THEN [d EXCEPT !.cfp_deadline = d.abstract_deadline] ELSE d

Substitute(d) ==
    IF d.cfp_deadline = None /\ d.abstract_deadline # None
    THEN [d EXCEPT !.cfp_deadline = d.abstract_deadline] ELSE d

\* lines 413-418: " to ".join(conf_dates), or "TBA"
ConferenceDates(d) ==
    IF d.conference_start = None
    THEN (IF d.conference_end # None /\ d.conference_end # d.conference_start
          THEN <<d.conference_end>> ELSE <<TBA>>)
    ELSE IF d.conference_end # None /\ d.conference_end # d.conference_start
         THEN <<d.conference_start, d.conference_end>>
         ELSE <<d.conference_start>>

\* lines 427-434
RECURSIVE LocationLoop(_, _, _)
LocationLoop(loc, p, location) ==
    IF p > Len(loc) THEN location
    ELSE IF loc[p] # <<>>
         THEN IF loc[p][1] > LocMax
              THEN LocationLoop(loc, p + 1, Loc(p, loc[p][1]))
              ELSE Loc(p, loc[p][1])
         ELSE LocationLoop(loc, p + 1, location)

\* lines 444-450
ScrapeFailed(url) ==
    [cfp_deadline |-> TBA, conference_dates |-> <<TBA>>, location |-> LocTBA,
     url |-> url, has_multiple_cycles |-> FALSE]

\* lines 403-442, from the dates dict extract_dates_from_text returned
ScrapeFrom(page, d, url) ==
    [cfp_deadline |-> IF Substitute(d).cfp_deadline # None
                      THEN Substitute(d).cfp_deadline ELSE TBA,
     conference_dates |-> ConferenceDates(d),
     location |-> LocationLoop(page.loc, 1, LocTBA),
     url |-> url,
     has_multiple_cycles |-> page.cycles]

scrape_cfp_page(page, url, t) ==
    IF page.ok THEN ScrapeFrom(page, extract_dates_from_text(page.lines, t), url)
    ELSE ScrapeFailed(url)


(***************************************************************************)
(* Inputs of the bounded checks                                            *)
(***************************************************************************)
PastD == Str("dmy", 2025, 1, 10)   \* before every instant of NowValues
SoonM == Str("mdy", 2025, 9, 20)   \* the midnight that is NowValues' second instant
LateD == Str("dmy", 2026, 3, 5)
FarD == Str("dmy", 2026, 12, 24)   \* after every instant of NowValues
IsoY == Str("ymd", 2026, 1, 15)    \* "2026-01-15" on the page
BadD == Str("dmy", 2025, 2, 29)    \* no such day

\* longest text of the deadline checks / of the conference-date checks
MaxLines == 3
MaxConfLines == 5

RECURSIVE Texts(_, _)
Texts(alphabet, n) ==
    IF n = 0 THEN {<<>>}
    ELSE Texts(alphabet, n - 1)
         \cup {Append(t, l) : t \in {u \in Texts(alphabet, n - 1) : Len(u) = n - 1},
                              l \in alphabet}

DeadlineLines ==
    {Line({}, <<>>),
     Line({"submission"}, <<IsoY, PastD>>),
     Line({"submission"}, <<LateD, SoonM>>),
     Line({"submission", "abstract"}, <<SoonM>>),
     Line({"abstract"}, <<PastD, BadD>>),
     Line({"submission"}, <<BadD>>),
     Line({"abstract"}, <<LateD>>)}

ConfLines ==
    {Line({}, <<>>),
     Line({}, <<FarD>>),
     Line({"conf"}, <<>>),
     Line({"conf"}, <<SoonM, LateD, PastD>>)}

LocMatches == {<<>>, <<49>>, <<50>>, <<51>>, <<51, 10>>}

DeadlinePages == {Page(TRUE, t, FALSE, <<<<>>, <<>>>>) : t \in Texts(DeadlineLines, MaxLines)}
ConfPages == {Page(TRUE, t, FALSE, <<<<>>, <<>>>>) : t \in Texts(ConfLines, MaxConfLines)}
LocPages ==
    {Page(ok, <<Line({"conf", "submission"}, <<LateD, LateD>>)>>, TRUE, <<l1, l2>>) :
        ok \in BOOLEAN, l1 \in LocMatches, l2 \in LocMatches}

PastInputs ==
    {TBA, None, EmptyStr, NotADate}
    \cup {Str(k, y, m, d) : k \in {"dmy", "mdy", "ymd", "iso", "slash", "wdmy", "emb"},
                            y \in {2024, 2025, 2026}, m \in {2, 9, 20}, d \in {2, 20, 29}}

XUrl == [attempt |-> 0, i |-> 1]
UrlTBA == [attempt |-> 0, i |-> 0]

(***************************************************************************)
(* SpecPast: one call of is_past_deadline                                  *)
(***************************************************************************)
PastIdle == p_in = TBA /\ p_now = 0 /\ p_out = "off"
ExtractIdle ==
    /\ x_page = Page(FALSE, <<>>, FALSE, <<<<>>, <<>>>>)
    /\ x_now = 0
    /\ x_pc = "off"
    /\ x_i = 0
    /\ all_deadlines = <<>>
    /\ all_abstract_deadlines = <<>>
    /\ dates = NoDates
    /\ x_result = ScrapeFailed(UrlTBA)
MainIdle ==
    /\ input = "missing"
    /\ conferences = <<>>
    /\ pc = "off"
    /\ idx = 0
    /\ attempt = 0
    /\ n_urls = 0
    /\ url_idx = 0
    /\ found = FALSE
    /\ cfp_info = None
    /\ best_url = UrlTBA
    /\ verdict = "none"
    /\ cfp_out = <<>>
    /\ dates_out = <<>>
    /\ files = [cfp |-> "absent", dates |-> "absent"]
    /\ net = FALSE
    /\ now = 0

PastInit ==
    /\ p_in \in PastInputs
    /\ p_now \in NowValues
    /\ p_out = "pending"
    /\ ExtractIdle
    /\ MainIdle

CallIsPast ==
    /\ p_out = "pending"
    /\ p_out' = IF is_past_deadline(p_in, p_now) THEN "true" ELSE "false"
    /\ UNCHANGED <<p_in, p_now, extractVars, mainVars>>

PastNext == CallIsPast
SpecPast == PastInit /\ [][PastNext]_vars

(***************************************************************************)
(* SpecExtract: scrape_cfp_page on one page                                *)
(***************************************************************************)
ExtractInit ==
    /\ \/ x_page \in DeadlinePages \cup LocPages /\ x_now \in NowValues
       \/ x_page \in ConfPages /\ x_now = Noon(2025, 6, 1)
    /\ x_pc = "fetch"
    /\ x_i = 1
    /\ all_deadlines = <<>>
    /\ all_abstract_deadlines = <<>>
    /\ dates = NoDates
    /\ x_result = ScrapeFailed(UrlTBA)
    /\ PastIdle
    /\ MainIdle

\* lines 388-397: the request and the parse succeed
XFetch ==
    /\ x_pc = "fetch" /\ x_page.ok
    /\ x_pc' = "scan"
    /\ UNCHANGED <<x_page, x_now, x_i, all_deadlines, all_abstract_deadlines, dates,
                   x_result, pastVars, mainVars>>

\* lines 388-389 raise; lines 443-450
XFetchFails ==
    /\ x_pc = "fetch" /\ ~x_page.ok
    /\ x_pc' = "done"
    /\ x_result' = ScrapeFailed(XUrl)
    /\ UNCHANGED <<x_page, x_now, x_i, all_deadlines, all_abstract_deadlines, dates,
                   pastVars, mainVars>>

\* one iteration of the loop of line 319
XScanLine ==
    /\ x_pc = "scan" /\ x_i <= Len(x_page.lines)
    /\ all_abstract_deadlines' = ScanPool(x_page.lines, x_i, "abstract", all_abstract_deadlines)
    /\ all_deadlines' = ScanPool(x_page.lines, x_i, "submission", all_deadlines)
    /\ dates' = ScanConf(x_page.lines, x_i, dates)
    /\ x_i' = x_i + 1
    /\ UNCHANGED <<x_page, x_now, x_pc, x_result, pastVars, mainVars>>

\* lines 348-377
XSelect ==
    /\ x_pc = "scan" /\ x_i > Len(x_page.lines)
    /\ dates' = [dates EXCEPT
                    !.cfp_deadline = SelectDeadline(all_deadlines, x_now),
                    !.abstract_deadline = SelectDeadline(all_abstract_deadlines, x_now)]
    /\ x_pc' = "scrape"
    /\ UNCHANGED <<x_page, x_now, x_i, all_deadlines, all_abstract_deadlines, x_result,
                   pastVars, mainVars>>

\* lines 399-442
XScrape ==
    /\ x_pc = "scrape"
    /\ dates' = Substitute(dates)
    /\ x_result' = ScrapeFrom(x_page, dates, XUrl)
    /\ x_pc' = "done"
    /\ UNCHANGED <<x_page, x_now, x_i, all_deadlines, all_abstract_deadlines,
                   pastVars, mainVars>>

ExtractNext == XFetch \/ XFetchFails \/ XScanLine \/ XSelect \/ XScrape
SpecExtract == ExtractInit /\ [][ExtractNext]_vars


(***************************************************************************)
(* Spec: main.  The candidate URL generator and the page fetcher are the   *)
(* environment: get_candidate_urls returns some number of urls (at least   *)
(* the five templated guesses, which clean_url never rejects), and the     *)
(* page behind a url is any page of MainPages.  A url is [attempt, i]: the *)
(* i-th candidate of the year current_year + attempt.  Every call of       *)
(* datetime.now() reads a clock that does not run backwards.               *)
(***************************************************************************)
\* longest input list
MaxConfs == 1
\* urls[:10] of line 546
UrlLimit == 10
UrlCounts == {5, UrlLimit + 1}

ConfObjects == {[name |-> "ICSE", core_rank |-> "A*"], [name |-> "PLDI"]}
RECURSIVE InputLists(_)
InputLists(n) ==
    IF n = 0 THEN {<<>>}
    ELSE InputLists(n - 1)
         \cup {Append(l, c) : l \in {u \in InputLists(n - 1) : Len(u) = n - 1},
                              c \in ConfObjects}

\* dict.get(key, default)
Get(obj, key, default) == IF key \in DOMAIN obj THEN obj[key] ELSE default

PgFail == Page(FALSE, <<>>, FALSE, <<<<>>, <<>>>>)
PgNone == Page(TRUE, <<Line({}, <<FarD>>)>>, FALSE, <<<<>>, <<>>>>)
PgSoon == Page(TRUE, <<Line({"submission"}, <<SoonM>>), Line({"conf"}, <<FarD>>)>>,
               TRUE, <<<<20>>, <<>>>>)
PgPast == Page(TRUE, <<Line({"submission"}, <<PastD>>)>>, FALSE, <<<<>>, <<>>>>)
PgIso == Page(TRUE, <<Line({"abstract"}, <<IsoY>>)>>, FALSE, <<<<>>, <<>>>>)
MainPages == {PgFail, PgNone, PgSoon, PgPast, PgIso}

\* instants the clock shows while main runs, and those a later read may return
MainNow == {Noon(2025, 6, 1), Noon(2026, 6, 1)}
Later(t) == {u \in MainNow : u >= t}

MainInit ==
    /\ \/ /\ input \in {"missing", "invalid"}
          /\ files \in {[cfp |-> "absent", dates |-> "absent"],
                        [cfp |-> "old", dates |-> "old"]}
       \/ /\ input = "valid"
          /\ files = [cfp |-> "old", dates |-> "old"]
    /\ conferences = <<>>
    /\ pc = "load"
    /\ idx = 0
    /\ attempt = 0
    /\ n_urls = 0
    /\ url_idx = 0
    /\ found = FALSE
    /\ cfp_info = None
    /\ best_url = UrlTBA
    /\ verdict = "none"
    /\ cfp_out = <<>>
    /\ dates_out = <<>>
    /\ net = FALSE
    /\ now \in MainNow
    /\ PastIdle
    /\ ExtractIdle

\* variant: a failed load goes on with an empty list
LoadFailsAsEmpty ==
    /\ pc = "load" /\ input # "valid"
    /\ conferences' = <<>>
    /\ pc' = "conf"
    /\ UNCHANGED <<input, idx, attempt, n_urls, url_idx, found, cfp_info, best_url,
                   verdict, cfp_out, dates_out, files, net, now, pastVars, extractVars>>

\* lines 505-512: FileNotFoundError or JSONDecodeError, report and return
LoadFails ==
    /\ pc = "load" /\ input # "valid"
    /\ pc' = "aborted"
    /\ UNCHANGED <<input, conferences, idx, attempt, n_urls, url_idx, found, cfp_info,
                   best_url, verdict, cfp_out, dates_out, files, net, now, pastVars,
                   extractVars>>

\* lines 501-504 and 514-515
Load ==
    /\ pc = "load" /\ input = "valid"
    /\ conferences' \in InputLists(MaxConfs)
    /\ cfp_out' = <<>>
    /\ dates_out' = <<>>
    /\ pc' = "conf"
    /\ UNCHANGED <<input, idx, attempt, n_urls, url_idx, found, cfp_info, best_url,
                   verdict, files, net, now, pastVars, extractVars>>

\* line 521 with lines 522-530: the next conference, if any.  urls, url_idx and
\* found still hold the previous conference's values here; each is assigned
\* again (lines 538, 545, 546) before it is read, so the model clears them.
NextConference ==
    /\ pc = "conf" /\ idx < Len(conferences)
    /\ idx' = idx + 1
    /\ attempt' = 0
    /\ cfp_info' = None
    /\ best_url' = UrlTBA
    /\ n_urls' = 0
    /\ url_idx' = 0
    /\ found' = FALSE
    /\ verdict' = "none"
    /\ pc' = "year"
    /\ UNCHANGED <<input, conferences, cfp_out, dates_out, files, net, now, pastVars,
                   extractVars>>

\* lines 534-545: the urls of the year current_year + attempt
StartYear ==
    /\ pc = "year"
    /\ n_urls' \in UrlCounts
    /\ net' = TRUE
    /\ found' = FALSE
    /\ url_idx' = 0
    /\ pc' = "url"
    /\ UNCHANGED <<input, conferences, idx, attempt, cfp_info, best_url, verdict,
                   cfp_out, dates_out, files, now, pastVars, extractVars>>

\* how many of the year's urls the loop of line 546 goes through
UrlsToTry(n) == IF n < UrlLimit THEN n ELSE UrlLimit

\* lines 551-566: the branch taken on what the scrape returned
VerdictOf(info, att, t) ==
    IF info.cfp_deadline = TBA THEN "tba"
    ELSE IF is_past_deadline(info.cfp_deadline, t) /\ att = 0 THEN "passed"
    ELSE "success"

\* variant: a past deadline on the current-year attempt does not break
UrlLoopEndsSkippingPast(v, tried, n) ==
    v = "success" \/ tried >= UrlsToTry(n)

\* variant: the loop stops after the first url whatever it gave
UrlLoopEndsAfterOne(v, tried, n) ==
    tried >= 1

\* lines 558, 566 (break) and the end of urls[:10]
UrlLoopEnds(v, tried, n) ==
    v \in {"passed", "success"} \/ tried >= UrlsToTry(n)

\* one iteration of the loop of line 546 on the page the request answers with;
\* t1 is the clock read of line 349, t2 that of line 492 (made only when the
\* page gave a deadline)
TryUrlOn(page) ==
    /\ pc = "url" /\ url_idx < UrlsToTry(n_urls)
    /\ \E t1 \in Later(now) :
         \E t2 \in Later(t1),
            info \in {scrape_cfp_page(page, [attempt |-> attempt, i |-> url_idx + 1], t1)} :
           /\ info.cfp_deadline = TBA => t2 = t1
           /\ cfp_info' = info
           /\ verdict' = VerdictOf(info, attempt, t2)
           /\ best_url' = IF info.cfp_deadline # TBA THEN info.url ELSE best_url
           /\ found' = IF info.cfp_deadline # TBA THEN TRUE ELSE found
           /\ now' = t2
    /\ url_idx' = url_idx + 1
    /\ pc' = IF UrlLoopEnds(verdict', url_idx + 1, n_urls) THEN "endyear" ELSE "url"
    /\ net' = TRUE
    /\ UNCHANGED <<input, conferences, idx, attempt, n_urls, cfp_out, dates_out,
                   files, pastVars, extractVars>>

\* line 546: the page is whatever the network returns for the url
TryUrl ==
    \E page \in MainPages : TryUrlOn(page)

\* variant: line 570 without the is_past_deadline test
YearLoopBreaksWhenFound(fnd, info, t) == fnd

\* line 570
YearLoopBreaks(fnd, info, t) ==
    fnd /\ ~is_past_deadline(Get(info, "cfp_deadline", TBA), t)

\* lines 570-571 and the end of range(2)
EndYear ==
    /\ pc = "endyear"
    /\ \E t \in Later(now) :
         /\ ~found => t = now
         /\ now' = t
         /\ IF YearLoopBreaks(found, cfp_info, t) \/ attempt = 1
            THEN pc' = "finish" /\ attempt' = attempt
            ELSE pc' = "year" /\ attempt' = attempt + 1
    /\ UNCHANGED <<input, conferences, idx, n_urls, url_idx, found, cfp_info, best_url,
                   verdict, cfp_out, dates_out, files, net, pastVars, extractVars>>

\* lines 574-580
FinalInfo(info) ==
    IF info = None \/ info.cfp_deadline = TBA
    THEN [cfp_deadline |-> TBA, conference_dates |-> <<TBA>>, location |-> LocTBA]
    ELSE info

\* lines 585-591
CfpRecord(conf, info, url) ==
    [name |-> Get(conf, "name", "Unknown"),
     core_rank |-> Get(conf, "core_rank", "TBA"),
     cfp_deadline |-> info.cfp_deadline,
     cfp_url |-> url,
     note |-> IF Get(info, "has_multiple_cycles", FALSE)
              THEN "Earliest deadline from multiple cycles" ELSE ""]

\* lines 593-598
DatesRecord(conf, info, url) ==
    [name |-> Get(conf, "name", "Unknown"),
     location |-> info.location,
     conference_dates |-> info.conference_dates,
     conf_url |-> url]

\* variant: no record for a conference with nothing found
AppendOutputsIfFound(out, rec, info) ==
    IF info.cfp_deadline = TBA THEN out ELSE Append(out, rec)

\* cfp_out.append / dates_out.append
AppendOutputs(out, rec, info) == Append(out, rec)

\* lines 573-598
Finish ==
    /\ pc = "finish"
    /\ cfp_info' = FinalInfo(cfp_info)
    /\ cfp_out' = AppendOutputs(cfp_out, CfpRecord(conferences[idx], cfp_info', best_url),
                                cfp_info')
    /\ dates_out' = AppendOutputs(dates_out,
                                  DatesRecord(conferences[idx], cfp_info', best_url),
                                  cfp_info')
    /\ pc' = "conf"
    /\ UNCHANGED <<input, conferences, idx, attempt, n_urls, url_idx, found, best_url,
                   verdict, files, net, now, pastVars, extractVars>>

\* lines 600-608
WriteOutputs ==
    /\ pc = "conf" /\ idx >= Len(conferences)
    /\ files' = [cfp |-> "written", dates |-> "written"]
    /\ pc' = "done"
    /\ UNCHANGED <<input, conferences, idx, attempt, n_urls, url_idx, found, cfp_info,
                   best_url, verdict, cfp_out, dates_out, net, now, pastVars,
                   extractVars>>

Next ==
    \/ Load \/ LoadFails \/ NextConference \/ StartYear \/ TryUrl \/ EndYear
    \/ Finish \/ WriteOutputs
Spec == MainInit /\ [][Next]_vars

(***************************************************************************)
(* Properties of the date functions                                        *)
(***************************************************************************)
SetMin(S) == CHOOSE a \in S : \A b \in S : a <= b
SetMax(S) == CHOOSE a \in S : \A b \in S : a >= b
Parses(s) == parse_date_flexible(s) # NoDate
IsFuture(s, t) == Parses(s) /\ parse_date_flexible(s) >= t
HasFuture(pool, t) == \E j \in 1..Len(pool) : IsFuture(pool[j], t)

\* sel is a candidate of the pool dated >= t, and no candidate dated >= t is earlier
EarliestFuture(pool, t, sel) ==
    /\ \E j \in 1..Len(pool) : pool[j] = sel
    /\ IsFuture(sel, t)
    /\ \A j \in 1..Len(pool) :
          IsFuture(pool[j], t) => parse_date_flexible(sel) <= parse_date_flexible(pool[j])

\* C1: when a pool holds a candidate that parses to a date >= now, the deadline
\* selected from it is a candidate whose date is the minimum of the dates >= now
\* in the pool (never one dated before now); for both pools.
C1_EarliestFutureDeadline ==
    x_pc = "scrape" =>
        /\ HasFuture(all_deadlines, x_now)
              => EarliestFuture(all_deadlines, x_now, dates.cfp_deadline)
        /\ HasFuture(all_abstract_deadlines, x_now)
              => EarliestFuture(all_abstract_deadlines, x_now, dates.abstract_deadline)

\* a pool with D1 < now < D2 < D3, D3 collected before D2: D2 is selected
C1_Witness ==
    /\ x_pc = "scrape"
    /\ \E j \in 1..Len(all_deadlines) :
          Parses(all_deadlines[j]) /\ parse_date_flexible(all_deadlines[j]) < x_now
    /\ \E j, k \in 1..Len(all_deadlines) :
          j < k /\ all_deadlines[j] = LateD /\ all_deadlines[k] = SoonM
    /\ x_now = Noon(2025, 6, 1)
    /\ dates.cfp_deadline = SoonM

\* the date substrings of the lines carrying the cue, in document order
RECURSIVE DocPool(_, _, _)
DocPool(lines, i, cue) ==
    IF i = 0 THEN <<>>
    ELSE DocPool(lines, i - 1, cue)
         \o (IF cue \in lines[i].cues THEN lines[i].toks ELSE <<>>)

\* the candidate collected last: on the last line that carries the cue and a
\* date, the rightmost match of the last date pattern that matches on that line
LastCollected(lines, cue) ==
    LET J == {j \in 1..Len(lines) : cue \in lines[j].cues /\ lines[j].toks # <<>>}
        toks == lines[SetMax(J)].toks
        pmax == SetMax({PatternOf(toks[k]) : k \in 1..Len(toks)})
    IN  toks[SetMax({k \in 1..Len(toks) : PatternOf(toks[k]) = pmax})]

\* C2 as claimed: with a non-empty pool and no candidate dated >= now, the
\* selected deadline is the last candidate in document order; for both pools.
C2_LastInDocumentOrder ==
    x_pc = "scrape" =>
        /\ all_deadlines # <<>> /\ ~HasFuture(all_deadlines, x_now)
              => LET doc == DocPool(x_page.lines, Len(x_page.lines), "submission")
                 IN  dates.cfp_deadline = doc[Len(doc)]
        /\ all_abstract_deadlines # <<>> /\ ~HasFuture(all_abstract_deadlines, x_now)
              => LET doc == DocPool(x_page.lines, Len(x_page.lines), "abstract")
                 IN  dates.abstract_deadline = doc[Len(doc)]

\* C2 as amended: with a non-empty pool and no candidate dated >= now, the
\* selected deadline is the candidate collected last: lines in document order,
\* and within a line the matches of date pattern 1 before those of pattern 2
\* before those of pattern 3, each left to right; for both pools.
C2_LastCollected ==
    x_pc = "scrape" =>
        /\ all_deadlines # <<>> /\ ~HasFuture(all_deadlines, x_now)
              => dates.cfp_deadline = LastCollected(x_page.lines, "submission")
        /\ all_abstract_deadlines # <<>> /\ ~HasFuture(all_abstract_deadlines, x_now)
              => dates.abstract_deadline = LastCollected(x_page.lines, "abstract")

\* no future candidate, candidates on two lines, and the one selected is neither
\* the first collected nor the last of the document
C2_Witness ==
    /\ x_pc = "scrape"
    /\ Len(all_deadlines) >= 3
    /\ ~HasFuture(all_deadlines, x_now)
    /\ dates.cfp_deadline = all_deadlines[Len(all_deadlines)]
    /\ dates.cfp_deadline # all_deadlines[1]
    /\ LET doc == DocPool(x_page.lines, Len(x_page.lines), "submission")
       IN  dates.cfp_deadline # doc[Len(doc)]

\* C3: scrape_cfp_page returns the selected CFP deadline when there is one, the
\* selected abstract deadline when there is none, "TBA" when there is neither;
\* it leaves a selected CFP deadline and the abstract deadline as they were.
C3_OneDirectionalSubstitution ==
    [][x_pc = "scrape" /\ x_pc' = "done" =>
        /\ x_result'.cfp_deadline =
              (IF dates.cfp_deadline # None THEN dates.cfp_deadline
               ELSE IF dates.abstract_deadline # None THEN dates.abstract_deadline
               ELSE TBA)
        /\ dates'.abstract_deadline = dates.abstract_deadline
        /\ dates.cfp_deadline # None => dates'.cfp_deadline = dates.cfp_deadline]_vars

\* a page with abstract candidates only: the abstract deadline is returned
C3_Witness ==
    /\ x_pc = "done" /\ x_page.ok
    /\ all_deadlines = <<>> /\ all_abstract_deadlines # <<>>
    /\ x_result.cfp_deadline = dates.abstract_deadline
    /\ x_result.cfp_deadline \notin {TBA, None}

\* C4: is_past_deadline is false for a string that does not parse ("TBA", the
\* empty value, "not a date" among them) and, for one that parses, true exactly
\* when its date is strictly before now.
C4_IsPastDeadline ==
    p_out \in {"true", "false"} =>
        /\ p_in \in {TBA, None, EmptyStr, NotADate} => p_out = "false"
        /\ ~Parses(p_in) => p_out = "false"
        /\ Parses(p_in) => (p_out = "true" <=> parse_date_flexible(p_in) < p_now)

\* "not a date" has been answered
C4_Witness == p_in = NotADate /\ p_out = "false"

\* the location the claim describes: the first match of the first pattern whose
\* first match is under 50 characters, "TBA" when there is none
ClaimedLocation(loc) ==
    LET P == {p \in 1..Len(loc) : loc[p] # <<>> /\ loc[p][1] < 50}
    IN  IF P = {} THEN LocTBA ELSE Loc(SetMin(P), loc[SetMin(P)][1])

\* C9: the location returned is the first match of the first pattern whose first
\* match is under 50 characters, else "TBA"; so it is "TBA" or shorter than 50.
C9_LocationUnder50 ==
    x_pc = "done" /\ x_page.ok =>
        /\ x_result.location = ClaimedLocation(x_page.loc)
        /\ x_result.location = LocTBA \/ x_result.location.len < 50

\* the window of cue line j: the date substrings of lines j .. j+3
WindowOf(lines, j) == Context(lines, j, IF j + 3 < Len(lines) THEN j + 3 ELSE Len(lines))
CueLines(lines, upto) ==
    {j \in 1..upto : "conf" \in lines[j].cues /\ WindowOf(lines, j) # <<>>}

\* C10 as claimed, after the line loop: start and end are the first and the
\* second date of the window of the first cue line whose window holds a date.
C10_FirstAndSecondDate ==
    x_pc = "scrape" =>
        LET J == CueLines(x_page.lines, Len(x_page.lines))
            ctx == WindowOf(x_page.lines, SetMin(J))
        IN  IF J = {} THEN dates.conference_start = None /\ dates.conference_end = None
            ELSE /\ dates.conference_start = ctx[1]
                 /\ dates.conference_end = IF Len(ctx) >= 2 THEN ctx[2] ELSE None

\* start and end as the pattern loop takes them from a window: the first match
\* of the first pattern that matches, and that pattern's second match if any
StartOf(ctx) ==
    LET p == SetMin({PatternOf(ctx[k]) : k \in 1..Len(ctx)})
    IN  ctx[SetMin({k \in 1..Len(ctx) : PatternOf(ctx[k]) = p})]
EndOf(ctx) ==
    LET p == SetMin({PatternOf(ctx[k]) : k \in 1..Len(ctx)})
        K == {k \in 1..Len(ctx) : PatternOf(ctx[k]) = p}
    IN  IF Cardinality(K) >= 2 THEN ctx[SetMin(K \ {SetMin(K)})] ELSE None

\* C10 as amended: at every point of the line loop, start and end are those of
\* the window of the first cue line so far whose window holds a date: the first
\* match of the first date pattern that matches in the window, and the second
\* match of that same pattern if there is one; once start is set no later line
\* changes start or end; end is never set while start is unset.
C10_ConferenceDatesOnce ==
    /\ [](x_pc \in {"scan", "scrape"} =>
            LET J == CueLines(x_page.lines, x_i - 1)
                ctx == WindowOf(x_page.lines, SetMin(J))
            IN  /\ IF J = {} THEN dates.conference_start = None
                   ELSE /\ dates.conference_start = StartOf(ctx)
                        /\ dates.conference_end = EndOf(ctx)
                /\ dates.conference_end # None => dates.conference_start # None)
    /\ [][x_pc = "scan" /\ dates.conference_start # None =>
            /\ dates'.conference_start = dates.conference_start
            /\ dates'.conference_end = dates.conference_end]_vars

\* two cue lines whose windows give different starts: the first one's stands
C10_Witness ==
    /\ x_pc = "scrape"
    /\ \E j1, j2 \in CueLines(x_page.lines, Len(x_page.lines)) :
          /\ j1 < j2
          /\ j1 = SetMin(CueLines(x_page.lines, Len(x_page.lines)))
          /\ StartOf(WindowOf(x_page.lines, j1)) # StartOf(WindowOf(x_page.lines, j2))
          /\ dates.conference_start = StartOf(WindowOf(x_page.lines, j1))
          /\ dates.conference_end # None


(***************************************************************************)
(* Properties of main                                                      *)
(***************************************************************************)
\* C5: in a searched year main tries the candidate urls in order, never more
\* than the first 10; the url loop goes on past a url whose page gives "TBA"
\* while urls are left, and stops at the first url whose page gives a deadline
\* other than "TBA", past or not; a past deadline is taken as the result only
\* on the next-year attempt, on the current-year attempt it sends main on to
\* the next year.
C5_UrlLoop ==
    /\ [](url_idx <= 10 /\ url_idx <= n_urls)
    /\ [](pc = "finish" /\ cfp_info.cfp_deadline # TBA
             /\ is_past_deadline(cfp_info.cfp_deadline, now)
          => attempt = 1 /\ cfp_info.url.attempt = 1)
    /\ [][pc = "url" =>
            /\ url_idx < 10 /\ url_idx' = url_idx + 1
            /\ cfp_info'.url = [attempt |-> attempt, i |-> url_idx + 1]
            /\ cfp_info'.cfp_deadline # TBA => pc' = "endyear"
            /\ cfp_info'.cfp_deadline = TBA
                  => pc' = IF url_idx + 1 < 10 /\ url_idx + 1 < n_urls
                           THEN "url" ELSE "endyear"
            /\ verdict' = "success" /\ is_past_deadline(cfp_info'.cfp_deadline, now')
                  => attempt = 1
            /\ cfp_info'.cfp_deadline # TBA /\ attempt = 0
                  /\ is_past_deadline(cfp_info'.cfp_deadline, now')
                  => verdict' = "passed" /\ pc' = "endyear"]_vars

\* on the next-year attempt, of more than 10 candidates, a url after the first
\* gave a past deadline, which is taken
C5_Witness ==
    /\ pc = "finish" /\ attempt = 1 /\ n_urls = 11 /\ url_idx > 1
    /\ verdict = "success"
    /\ is_past_deadline(cfp_info.cfp_deadline, now)

\* C6: for each conference the current year is searched first; after it the
\* next year is searched when the deadline found for the current year is past
\* (or none was found); a current-year deadline that is not "TBA" and not past
\* ends the search with no next-year attempt; no year after the next is
\* searched.
C6_YearOrder ==
    /\ [](attempt \in {0, 1})
    /\ [][pc = "endyear" =>
            IF found /\ ~is_past_deadline(cfp_info.cfp_deadline, now')
            THEN pc' = "finish" /\ attempt' = attempt
            ELSE IF attempt = 0 THEN pc' = "year" /\ attempt' = 1
            ELSE pc' = "finish" /\ attempt' = 1]_vars
    /\ [][attempt' # attempt =>
            \/ attempt' = 0 /\ pc = "conf"
            \/ attempt' = 1 /\ attempt = 0 /\ pc = "endyear"]_vars
    /\ [][pc' = "year" => (pc = "conf" /\ attempt' = 0) \/ (pc = "endyear" /\ attempt' = 1)]_vars

\* the current year gave a past deadline and the next year is being searched
C6_Witness ==
    /\ pc = "url" /\ attempt = 1
    /\ best_url # UrlTBA /\ best_url.attempt = 0
    /\ cfp_info.cfp_deadline # TBA
    /\ is_past_deadline(cfp_info.cfp_deadline, now)

C8_AbortsCleanly ==
    input # "valid" =>
        /\ pc \in {"load", "aborted"}
        /\ idx = 0 /\ cfp_out = <<>> /\ dates_out = <<>>
        /\ ~net
        /\ files \in {[cfp |-> "absent", dates |-> "absent"], [cfp |-> "old", dates |-> "old"]}

\* main has returned on invalid JSON, the files of an earlier run untouched
C8_Witness ==
    /\ input = "invalid" /\ pc = "aborted"
    /\ files = [cfp |-> "old", dates |-> "old"]

\* the result of a scrape whose request or parse raised, as C11 words it
FailedResult(url) ==
    [cfp_deadline |-> TBA, conference_dates |-> <<TBA>>, location |-> LocTBA,
     url |-> url, has_multiple_cycles |-> FALSE]

\* C11: an iteration whose fetch or parse raises leaves cfp_info all "TBA" with
\* has_multiple_cycles false and the tried url, changes neither the conference,
\* the year attempt, the outputs nor what was found so far, and main goes on
\* with the next url of the same year when one remains within the first 10
\* (otherwise the year's url loop is over and main goes on from its end).
C11_FailedFetchContinues ==
    [][TryUrlOn(PgFail) =>
         /\ cfp_info' = FailedResult([attempt |-> attempt, i |-> url_idx + 1])
         /\ pc' = IF url_idx + 1 < n_urls /\ url_idx + 1 < UrlLimit
                  THEN "url" ELSE "endyear"
         /\ url_idx' = url_idx + 1
         /\ idx' = idx /\ attempt' = attempt
         /\ found' = found /\ best_url' = best_url
         /\ cfp_out' = cfp_out /\ dates_out' = dates_out]_vars

\* the ninth url of the next-year attempt failed and the tenth is still to try
C11_Witness ==
    /\ pc = "url" /\ attempt = 1 /\ n_urls = UrlLimit + 1
    /\ url_idx = UrlLimit - 1
    /\ cfp_info = FailedResult([attempt |-> 1, i |-> UrlLimit - 1])

\* the record of the conference main has just finished, when there is one
LastWritten ==
    pc \in {"conf", "done"} /\ idx >= 1 /\ Len(cfp_out) = idx

\* C12: in every record of the output cfp_url is "TBA" exactly when cfp_deadline
\* is "TBA", and conf_url equals cfp_url; a deadline that is not "TBA" comes with
\* the url of the page it was extracted from; and when some page of the
\* conference's search gave a deadline (best_url was set, line 552), the
\* conference's record does not say "TBA".
C12_UrlDeadlineConsistent ==
    /\ \A i \in 1..Len(cfp_out) :
         /\ cfp_out[i].cfp_url = UrlTBA <=> cfp_out[i].cfp_deadline = TBA
         /\ dates_out[i].conf_url = cfp_out[i].cfp_url
    /\ LastWritten =>
         /\ cfp_out[idx].cfp_deadline # TBA => cfp_out[idx].cfp_url = cfp_info.url
         /\ best_url # UrlTBA => cfp_out[idx].cfp_deadline # TBA

====
